---- MODULE Spec2Model ----
(***************************************************************************)
(* PromiseQueue (packages/core/utils/src/PromiseQueue.js) as a state       *)
(* machine.  One action per public call (add, run) and one per             *)
(* continuation of the async function _runJob after its await (the worker  *)
(* promise fulfilled, the worker promise rejected).  JavaScript runs each  *)
(* of these to completion on one thread, so each is one atomic step that   *)
(* includes the nested calls to _runJob, _next and _reset.                 *)
(*                                                                         *)
(* Promises are settle-once handles: a job promise is an index into        *)
(* jobPromises, a run promise an index into runPromises.  A worker error   *)
(* is named by the id of the invocation that threw it.  The rest-arguments *)
(* of an add call are an array made by that call; the queue never reads    *)
(* them, so they are named by the call: the args of the add that made job  *)
(* promise p are p.  The worker is a function that returns a promise, as    *)
(* its type says: it settles in a later turn and does not throw before     *)
(* returning.                                                              *)
(*                                                                         *)
(* _addToInstallQueue of installPackage.js is a second client of the same  *)
(* state machine: it owns one queue, built with maxConcurrent 1 and retry  *)
(* false, and the set modulesInstalling.  Its key is the array             *)
(* modulesToInstall, a new object on every call, so the key of an install  *)
(* job is named by the job promise the call made.                          *)
(***************************************************************************)
EXTENDS Integers, Sequences, FiniteSets, TLC

\* ---- bounds of the model ------------------------------------------------
MaxKey == 2          \* keys are 1..MaxKey
MaxConc == 2         \* largest finite options.maxConcurrent tried
MaxCycles == 2       \* run calls that create a run promise
MaxJobs == 3         \* add calls that create a job, in Spec
DeepJobs == 4        \* the same, in DeepSpec
LiveJobs == 2        \* the same, in FairSpec
MaxModule == 2       \* module strings are 1..MaxModule
MaxRequests == 3     \* calls of _addToInstallQueue, in InstallSpec

Keys == 1..MaxKey

Null == 0            \* null / undefined; promise ids start at 1
Infinity == -1       \* stands for the JavaScript number Infinity
Undefined == -2      \* an option the caller left out

VARIABLES
  constructed,       \* FALSE when the constructor threw the TypeError
  maxConcurrent,     \* this._maxConcurrent
  retry,             \* this._retry
  numRunning,        \* this._numRunning
  processing,        \* this._processing : key -> Job
  queue,             \* this._queue : sequence of <<key, args>>
  runPromise,        \* this._runPromise (Null or an index of runPromises)
  deferred,          \* this._deferred   (Null or an index of runPromises)
  jobPromises,       \* every job promise made by add: [st, err]
  runPromises,       \* every run promise made by run: [st, err]
  inflight,          \* _runJob calls suspended at their await
  nInv,              \* worker invocations started so far
  starts,            \* per job promise: worker invocations started for it
  keysSeen,          \* the callers have passed the keys 1..keysSeen to add
  modulesInstalling, \* installPackage.js: the Set modulesInstalling
  installs,          \* installPackage.js, history: jobModules, the array
                     \* modulesToInstall of each install job; requests, the
                     \* modules and the returned promise of each call;
                     \* installed, the modules of the install calls that
                     \* succeeded
  lastOp             \* the call or continuation that ran last: its argument (the
                     \* options of new, the key of add, the invocation id of a
                     \* continuation), the promise it returned, and whether add /
                     \* run took its early return

vars == <<constructed, maxConcurrent, retry, numRunning, processing, queue,
          runPromise, deferred, jobPromises, runPromises, inflight, nInv,
          starts, keysSeen, modulesInstalling, installs, lastOp>>

installerVars == <<modulesInstalling, installs>>

\* ---- helpers --------------------------------------------------------------

\* a < b on JavaScript numbers, b possibly Infinity
Less(a, b) == b = Infinity \/ a < b

\* Map.prototype.set / delete
MapSet(m, k, v) == [x \in (DOMAIN m) \cup {k} |-> IF x = k THEN v ELSE m[x]]
MapDelete(m, k) == [x \in (DOMAIN m) \ {k} |-> m[x]]
EmptyMap == [x \in {} |-> Null]

\* makeDeferredWithPromise and the settle-once behaviour of a promise
PendingPromise == [st |-> "pending", err |-> Null]
Resolve(ps, p) ==
  IF ps[p].st = "pending" THEN [ps EXCEPT ![p] = [st |-> "fulfilled", err |-> Null]]
  ELSE ps
Reject(ps, p, e) ==
  IF ps[p].st = "pending" THEN [ps EXCEPT ![p] = [st |-> "rejected", err |-> e]]
  ELSE ps

\* the mutable fields of the queue object, as one record
Self ==
  [numRunning |-> numRunning, processing |-> processing, queue |-> queue,
   runPromise |-> runPromise, deferred |-> deferred,
   jobPromises |-> jobPromises, runPromises |-> runPromises,
   inflight |-> inflight, nInv |-> nInv, starts |-> starts]

Store(S) ==
  /\ numRunning' = S.numRunning
  /\ processing' = S.processing
  /\ queue' = S.queue
  /\ runPromise' = S.runPromise
  /\ deferred' = S.deferred
  /\ jobPromises' = S.jobPromises
  /\ runPromises' = S.runPromises
  /\ inflight' = S.inflight
  /\ nInv' = S.nInv
  /\ starts' = S.starts

\* ---- PromiseQueue ----------------------------------------------------------

ConstructorThrowsOnlyNegative(opts) ==
  opts.maxConcurrent # Undefined /\ opts.maxConcurrent < 0

\* constructor: opts = [maxConcurrent |-> Undefined or a number,
\*                      retry |-> "undefined", "true" or "false"]
ConstructorThrows(opts) == opts.maxConcurrent # Undefined /\ opts.maxConcurrent <= 0
MaxConcurrentOf(opts) ==
  IF opts.maxConcurrent = Undefined THEN Infinity ELSE opts.maxConcurrent
RetryOf(opts) == opts.retry # "false"

\* the options tried: no limit, the limits -1 and 0, and the limits 1..MaxConc
Options == [maxConcurrent : {Undefined} \cup (-1..MaxConc),
            retry : {"undefined", "true", "false"}]

ResetKeepsCycle(S) ==
  [S EXCEPT !.processing = EmptyMap, !.deferred = Null]

ResetAlsoCount(S) ==
  [S EXCEPT !.processing = EmptyMap, !.runPromise = Null, !.deferred = Null,
            !.numRunning = 0]

\* _reset()
Reset(S) ==
  [S EXCEPT !.processing = EmptyMap, !.runPromise = Null, !.deferred = Null]

\* _runJob(key, args) up to its await: the nullthrows lookup, the increment
\* and the call of the worker.  A failed lookup rejects the promise of the
\* async function, which no caller observes; nothing else happens.
RunJob(S, key, args) ==
  IF key \notin DOMAIN S.processing THEN S
  ELSE LET job == S.processing[key] IN
       [S EXCEPT !.numRunning = @ + 1,
                 !.nInv = @ + 1,
                 !.starts[job.promise] = @ + 1,
                 !.inflight = @ \cup {[id |-> S.nInv + 1, key |-> key, args |-> args,
                                       job |-> job, cycle |-> S.runPromise]}]

HasSlotOffByOne(S) == S.numRunning = maxConcurrent \/ Less(S.numRunning, maxConcurrent)

\* this._numRunning < this._maxConcurrent, the test of add and of _next
HasSlot(S) == Less(S.numRunning, maxConcurrent)

StartsAtOnceIgnoringCycle(S) == HasSlot(S)

\* the test by which add starts the new job at once instead of queueing it
StartsAtOnce(S) == S.runPromise # Null /\ HasSlot(S)

\* the while loop of _next()
RECURSIVE Admit(_)
Admit(S) ==
  IF Len(S.queue) > 0 /\ HasSlot(S)
  THEN Admit(RunJob([S EXCEPT !.queue = Tail(@)], Head(S.queue)[1], Head(S.queue)[2]))
  ELSE S

NextWithoutDrainTest(S) ==
  IF S.runPromise = Null THEN S ELSE Admit(S)

\* _next()
Next_(S) ==
  IF S.runPromise = Null THEN S
  ELSE LET T == Admit(S) IN
       IF DOMAIN T.processing = {}
       THEN IF T.deferred = Null THEN T   \* invariant() throws
            ELSE Reset([T EXCEPT !.runPromises = Resolve(@, T.deferred)])
       ELSE T

ExistingJobNeverFound(S, key) == FALSE

\* the lookup of add: existingJob is not undefined
ExistingJob(S, key) == key \in DOMAIN S.processing

AlreadyRunningNeverSeen(S) == FALSE

\* the test of run: this._runPromise is set
AlreadyRunning(S) == S.runPromise # Null

\* add(key, ...args)
Add(key) ==
  /\ constructed
  /\ IF ExistingJob(Self, key)
     THEN /\ Store(Self)
          /\ lastOp' = [op |-> "add", arg |-> key, ret |-> processing[key].promise,
                        hit |-> TRUE]
     ELSE LET p == Len(jobPromises) + 1
                 args == p
                 S1 == [Self EXCEPT !.jobPromises = Append(@, PendingPromise),
                                    !.starts = Append(@, 0),
                                    !.processing = MapSet(@, key, [promise |-> p, retried |-> FALSE])]
                 S2 == IF StartsAtOnce(S1)
                       THEN RunJob(S1, key, args)
                       ELSE [S1 EXCEPT !.queue = Append(@, <<key, args>>)]
          IN /\ Store(S2)
             /\ lastOp' = [op |-> "add", arg |-> key, ret |-> p, hit |-> FALSE]
  /\ UNCHANGED <<constructed, maxConcurrent, retry>>

\* run()
Run ==
  /\ constructed
  /\ IF AlreadyRunning(Self)
     THEN /\ Store(Self)
          /\ lastOp' = [op |-> "run", arg |-> Null, ret |-> runPromise, hit |-> TRUE]
     ELSE LET p == Len(runPromises) + 1
              S1 == [Self EXCEPT !.runPromises = Append(@, PendingPromise),
                                 !.deferred = p, !.runPromise = p]
          IN /\ Store(Next_(S1))
             /\ lastOp' = [op |-> "run", arg |-> Null, ret |-> p, hit |-> FALSE]
  /\ UNCHANGED <<constructed, maxConcurrent, retry>>

\* _runJob after its await, the worker promise fulfilled
WorkerResolved(inv) ==
  /\ inv \in inflight
  /\ LET S0 == [Self EXCEPT !.inflight = @ \ {inv}]
         S1 == [S0 EXCEPT !.jobPromises = Resolve(@, inv.job.promise),
                          !.processing = MapDelete(@, inv.key),
                          !.numRunning = @ - 1]
     IN Store(Next_(S1))
  /\ lastOp' = [op |-> "resolved", arg |-> inv.id, ret |-> Null, hit |-> FALSE]
  /\ UNCHANGED <<constructed, maxConcurrent, retry>>

\* _runJob after its await, the worker promise rejected: the catch block
WorkerRejected(inv) ==
  /\ inv \in inflight
  /\ LET err == inv.id
         S0 == [Self EXCEPT !.inflight = @ \ {inv}, !.numRunning = @ - 1]
         S1 == IF retry /\ ~inv.job.retried
               THEN Next_([S0 EXCEPT
                      !.processing = MapSet(@, inv.key, [inv.job EXCEPT !.retried = TRUE]),
                      !.queue = Append(@, <<inv.key, inv.args>>)])
               ELSE Reset([S0 EXCEPT
                      !.processing = MapDelete(@, inv.key),
                      !.jobPromises = Reject(@, inv.job.promise, err),
                      !.runPromises = IF S0.deferred # Null
                                      THEN Reject(@, S0.deferred, err) ELSE @])
     IN Store(S1)
  /\ lastOp' = [op |-> "rejected", arg |-> inv.id, ret |-> Null, hit |-> FALSE]
  /\ UNCHANGED <<constructed, maxConcurrent, retry>>

\* new PromiseQueue(callback, opts): the field initialisers, then the constructor
New(opts) ==
  /\ constructed = ~ConstructorThrows(opts)
  /\ maxConcurrent = IF ConstructorThrows(opts) THEN Null ELSE MaxConcurrentOf(opts)
  /\ retry = IF ConstructorThrows(opts) THEN FALSE ELSE RetryOf(opts)
  /\ numRunning = 0
  /\ processing = EmptyMap
  /\ queue = <<>>
  /\ runPromise = Null
  /\ deferred = Null
  /\ jobPromises = <<>>
  /\ runPromises = <<>>
  /\ inflight = {}
  /\ nInv = 0
  /\ starts = <<>>
  /\ keysSeen = 0
  /\ modulesInstalling = {}
  /\ installs = [jobModules |-> EmptyMap, requests |-> <<>>, installed |-> {}]
  /\ lastOp = [op |-> "new", arg |-> opts, ret |-> Null, hit |-> FALSE]

Init == \E opts \in Options : New(opts)

\* The keys a caller may pass next.  The queue only compares keys for
\* identity (Map lookups), so a behaviour and its renaming of the keys are the
\* same behaviour: callers introduce new keys in the order 1, 2, ...
NextKeys == {key \in Keys : key <= keysSeen + 1}

\* the calls and continuations, with at most n jobs made by add
Step(n) ==
  \/ \E key \in NextKeys :
        /\ Add(key) /\ Len(jobPromises') <= n
        /\ keysSeen' = IF key > keysSeen THEN key ELSE keysSeen
        /\ UNCHANGED installerVars
  \/ Run /\ Len(runPromises') <= MaxCycles /\ UNCHANGED <<keysSeen, installerVars>>
  \/ \E inv \in inflight : WorkerResolved(inv) /\ UNCHANGED <<keysSeen, installerVars>>
  \/ \E inv \in inflight : WorkerRejected(inv) /\ UNCHANGED <<keysSeen, installerVars>>

Next == Step(MaxJobs)
Spec == Init /\ [][Next]_vars

\* the same queue with one more job
DeepNext == Step(DeepJobs)
DeepSpec == Init /\ [][DeepNext]_vars

\* WF: a started worker invocation settles, one way or the other
Settle ==
  \E inv \in inflight :
     /\ WorkerResolved(inv) \/ WorkerRejected(inv)
     /\ UNCHANGED <<keysSeen, installerVars>>

\* the same queue with fewer jobs, for the temporal properties
LiveNext == Step(LiveJobs)
FairSpec == Init /\ [][LiveNext]_vars /\ WF_vars(Settle)

\* ---- installPackage.js -----------------------------------------------------

Modules == 1..MaxModule

\* let queue = new PromiseQueue(install, {maxConcurrent: 1, retry: false});
\* let modulesInstalling = new Set();
InstallInit == New([maxConcurrent |-> 1, retry |-> "false"])

\* _addToInstallQueue(modules, filePath, options): the filter, the adds to the
\* set, queue.add(modulesToInstall, ...) with its then-callback registered,
\* and queue.run(), whose promise is returned
AddToInstallQueue(modules) ==
  /\ constructed
  /\ LET modulesToInstall == modules \ modulesInstalling
         p == Len(jobPromises) + 1
         key == p
         args == p
         A1 == [Self EXCEPT !.jobPromises = Append(@, PendingPromise),
                            !.starts = Append(@, 0),
                            !.processing = MapSet(@, key, [promise |-> p, retried |-> FALSE])]
         A2 == IF StartsAtOnce(A1)
               THEN RunJob(A1, key, args)
               ELSE [A1 EXCEPT !.queue = Append(@, <<key, args>>)]
         S == IF modulesToInstall # {} THEN A2 ELSE Self
         r == Len(S.runPromises) + 1
         R1 == [S EXCEPT !.runPromises = Append(@, PendingPromise),
                         !.deferred = r, !.runPromise = r]
         ret == IF AlreadyRunning(S) THEN S.runPromise ELSE r
     IN /\ Store(IF AlreadyRunning(S) THEN S ELSE Next_(R1))
        /\ modulesInstalling' = modulesInstalling \cup modulesToInstall
        /\ installs' =
             [installs EXCEPT
                !.jobModules = IF modulesToInstall # {}
                               THEN MapSet(@, p, modulesToInstall) ELSE @,
                !.requests = Append(@, [modules |-> modules, ret |-> ret])]
        /\ lastOp' = [op |-> "install", arg |-> modules, ret |-> ret,
                      hit |-> modulesToInstall = {}]
  /\ UNCHANGED <<constructed, maxConcurrent, retry, keysSeen>>

\* install(modulesToInstall, ...) fulfilled: the continuation of _runJob, and
\* the then-callback of _addToInstallQueue if the job promise is fulfilled by it
InstallResolved(inv) ==
  /\ WorkerResolved(inv)
  /\ modulesInstalling' =
       IF jobPromises[inv.job.promise].st = "pending"
       THEN modulesInstalling \ installs.jobModules[inv.job.promise]
       ELSE modulesInstalling
  /\ installs' = [installs EXCEPT !.installed = @ \cup installs.jobModules[inv.key]]
  /\ UNCHANGED keysSeen

\* install(modulesToInstall, ...) rejected: the catch block of _runJob; the
\* then of _addToInstallQueue has no callback for a rejected job promise
InstallRejected(inv) ==
  /\ WorkerRejected(inv)
  /\ UNCHANGED <<keysSeen, installerVars>>

InstallNext ==
  \/ \E modules \in SUBSET Modules :
        AddToInstallQueue(modules) /\ Len(installs'.requests) <= MaxRequests
  \/ \E inv \in inflight : InstallResolved(inv)
  \/ \E inv \in inflight : InstallRejected(inv)

InstallSpec == InstallInit /\ [][InstallNext]_vars

\* ---- shorthands of the properties ------------------------------------------

JobIds == 1..Len(jobPromises)
RunIds == 1..Len(runPromises)

\* the fields of the queue object, without the record of the last call
QueueState == <<numRunning, processing, queue, runPromise, deferred,
                jobPromises, runPromises, inflight, nInv, starts>>

\* the step is the catch block of invocation inv
IsRejectionOf(inv) == inv \in inflight /\ lastOp'.op = "rejected" /\ lastOp'.arg = inv.id

\* the test of the catch block, negated: the failure is not retried
IsTerminal(inv) == ~retry \/ inv.job.retried

\* run promise c is fulfilled after the step and was not before it
BecomesFulfilled(c) ==
  /\ c \in 1..Len(runPromises')
  /\ runPromises'[c].st = "fulfilled"
  /\ (c \in RunIds => runPromises[c].st = "pending")

\* ---- C1 ---------------------------------------------------------------------
\* C1: with maxConcurrent = N, the worker invocations started and not yet
\* settled are at most N in every reachable state, stale invocations of an
\* ended cycle included.
C1_AtMostNInFlight ==
  maxConcurrent # Infinity => Cardinality(inflight) <= maxConcurrent

\* The limit is reached in a later cycle, one of the slots being held by an
\* invocation started in the cycle that a terminal failure ended.
C1_Witness ==
  /\ maxConcurrent = 2
  /\ Cardinality(inflight) = 2
  /\ runPromise # Null
  /\ \E inv \in inflight : inv.cycle # runPromise

\* ---- C2 ---------------------------------------------------------------------
\* C2: at the moment a run promise becomes fulfilled no promise returned by an
\* earlier add is still pending: the run promise settles after all job
\* promises.  (The claim asks for more, that each of them is fulfilled.)
C2_RunFulfilledAfterAllJobs ==
  [][\A c \in 1..Len(runPromises') :
       BecomesFulfilled(c) =>
         \A j \in 1..Len(jobPromises') : jobPromises'[j].st # "pending"]_vars

\* ---- C3 ---------------------------------------------------------------------
\* C3: a terminal worker failure during an active cycle removes the job from
\* the registry, rejects the job promise with the worker's error and rejects
\* the run promise of the cycle with the same error; a rejected run promise
\* keeps the error of its first terminal failure.
C3_TerminalFailure ==
  [][/\ \A inv \in inflight :
          (IsRejectionOf(inv) /\ IsTerminal(inv) /\ deferred # Null) =>
            /\ inv.key \notin DOMAIN processing'
            /\ jobPromises'[inv.job.promise] = [st |-> "rejected", err |-> inv.id]
            /\ runPromises'[deferred] = [st |-> "rejected", err |-> inv.id]
     /\ \A c \in RunIds :
          runPromises[c].st = "rejected" => runPromises'[c] = runPromises[c]]_vars

\* ---- C4 ---------------------------------------------------------------------
\* C4: if every started worker invocation eventually settles, every promise
\* returned by run eventually settles.  A run promise that is pending is the
\* promise of the active cycle, and an active cycle eventually ends; at that
\* moment its promise is no longer the active one, so it has settled.
C4_RunEventuallySettles ==
  /\ [](\A c \in RunIds : runPromises[c].st = "pending" => c = runPromise)
  /\ (runPromise # Null) ~> (runPromise = Null)

\* A first cycle was rejected, a later one fulfilled, and a job was retried.
C4_Witness ==
  /\ Len(runPromises) >= 2
  /\ runPromises[1].st = "rejected"
  /\ runPromises[2].st = "fulfilled"
  /\ \E j \in JobIds : starts[j] = 2

\* ---- C5 ---------------------------------------------------------------------
\* C5: add(key) while a job for key is in the registry returns the promise of
\* that job, starts no worker, creates no job and leaves the registry, the
\* queue and the running count as they were.
C5_AddOfOutstandingKey ==
  [][\A k \in Keys :
       (lastOp'.op = "add" /\ lastOp'.arg = k /\ k \in DOMAIN processing) =>
          /\ lastOp'.ret = processing[k].promise
          /\ UNCHANGED QueueState]_vars

\* add found the job of its key while the job waits in the queue for its retry.
C5_Witness ==
  /\ lastOp.op = "add" /\ lastOp.hit
  /\ lastOp.arg \in DOMAIN processing
  /\ processing[lastOp.arg].retried
  /\ processing[lastOp.arg].promise = lastOp.ret
  /\ \E i \in 1..Len(queue) : queue[i][1] = lastOp.arg

\* ---- C6 ---------------------------------------------------------------------
\* C6: the worker is invoked at most twice for a job created by add when retry
\* is enabled, and at most once when it is disabled.
C6_RetryBound ==
  \A j \in JobIds : starts[j] <= IF retry THEN 2 ELSE 1

\* ---- C7 ---------------------------------------------------------------------
\* C7: a worker invocation starts only while a cycle is active: every
\* invocation was started with this._runPromise set.
C7_StartsOnlyInCycle ==
  \A inv \in inflight : inv.cycle # Null

\* After a terminal failure reset the cycle, an invocation of the ended cycle
\* succeeded; an entry waits in the queue and a slot is free, yet nothing started.
C7_Witness ==
  /\ lastOp.op = "resolved"
  /\ runPromise = Null
  /\ Len(queue) > 0
  /\ HasSlot(Self)
  /\ \E c \in RunIds : runPromises[c].st = "rejected"

\* ---- C8 ---------------------------------------------------------------------
\* C8: every promise returned by add eventually settles.  Only _runJob settles
\* a job promise, through the job it read from the registry, so a promise that
\* is to settle is, while pending, the promise of a job in the registry or of
\* a suspended _runJob.
C8_PendingJobCanSettle ==
  \A j \in JobIds :
    jobPromises[j].st = "pending" =>
      \/ \E k \in DOMAIN processing : processing[k].promise = j
      \/ \E inv \in inflight : inv.job.promise = j

\* ---- C9 ---------------------------------------------------------------------
\* C9: run() during an active cycle returns the run promise of the cycle,
\* which is the one made by the call that started the cycle, makes no new
\* promise and admits nothing.
C9_RunIdempotent ==
  [][(lastOp'.op = "run" /\ runPromise # Null) =>
        /\ lastOp'.ret = runPromise
        /\ runPromise = Len(runPromises)
        /\ UNCHANGED QueueState]_vars

\* run() took its early return while an entry waited in the queue.
C9_Witness ==
  /\ lastOp.op = "run" /\ lastOp.hit
  /\ lastOp.ret = runPromise
  /\ runPromise # Null
  /\ Len(queue) > 0

\* ---- C10 --------------------------------------------------------------------
\* C10: when a run promise becomes fulfilled the queue is in its initial
\* state: registry empty, queue empty, running count 0, no cycle active.
C10_InitialStateAfterFulfilment ==
  [][\A c \in 1..Len(runPromises') :
       BecomesFulfilled(c) =>
         /\ DOMAIN processing' = {}
         /\ queue' = <<>>
         /\ numRunning' = 0
         /\ runPromise' = Null /\ deferred' = Null]_vars

\* ---- C11 --------------------------------------------------------------------
\* C11: new PromiseQueue with maxConcurrent 0 or negative throws, and no job
\* is ever added to the queue that was not built; with no maxConcurrent the
\* limit is Infinity and no entry is kept waiting during a cycle; retry is on
\* unless the option is false.
C11_Constructor ==
  /\ lastOp.op = "new" =>
        /\ constructed <=>
              (lastOp.arg.maxConcurrent = Undefined \/ lastOp.arg.maxConcurrent > 0)
        /\ constructed =>
              /\ retry <=> (lastOp.arg.retry # "false")
              /\ maxConcurrent = IF lastOp.arg.maxConcurrent = Undefined
                                 THEN Infinity ELSE lastOp.arg.maxConcurrent
  /\ ~constructed => lastOp.op = "new" /\ jobPromises = <<>> /\ runPromises = <<>>
  /\ (constructed /\ maxConcurrent = Infinity /\ runPromise # Null) => queue = <<>>

\* The constructor was given the limit 0 and threw.
C11_Witness ==
  /\ lastOp.op = "new"
  /\ lastOp.arg.maxConcurrent = 0
  /\ ~constructed

\* ---- C12 --------------------------------------------------------------------
\* the step is a continuation (success or catch block) of invocation inv
IsSettlementOf(inv) ==
  /\ inv \in inflight
  /\ lastOp'.op \in {"resolved", "rejected"}
  /\ lastOp'.arg = inv.id

\* inv was started in a cycle that a terminal failure ended, and a later
\* cycle is active now
IsStale(inv) ==
  /\ inv.cycle # Null
  /\ runPromises[inv.cycle].st = "rejected"
  /\ runPromise # Null
  /\ runPromise # inv.cycle

\* C12: the settlement of an invocation left in flight by a cycle that a
\* terminal failure ended changes neither the registry, nor the pending
\* queue, nor the cycle handle of the cycle that is active now.
C12_CrossCycleIsolation ==
  [][\A inv \in inflight :
       (IsSettlementOf(inv) /\ IsStale(inv)) =>
          /\ processing' = processing
          /\ queue' = queue
          /\ runPromise' = runPromise
          /\ runPromises' = runPromises]_vars

\* ---- C13 --------------------------------------------------------------------
\* C13: every entry of the pending queue has a job for its key in the registry.
C13_QueuedEntriesHaveJobs ==
  \A i \in 1..Len(queue) : queue[i][1] \in DOMAIN processing

\* ---- C16 --------------------------------------------------------------------
\* C16: the running count is the number of worker invocations that have
\* started and not yet settled, and is never negative.
C16_RunningCount ==
  /\ numRunning >= 0
  /\ numRunning = Cardinality(inflight)

\* No cycle is active, and an invocation of a cycle that a terminal failure
\* ended is still counted.
C16_Witness ==
  /\ runPromise = Null
  /\ numRunning >= 1
  /\ \E inv \in inflight : runPromises[inv.cycle].st = "rejected"

\* ---- C18 --------------------------------------------------------------------
\* C18: no two worker invocations for the same key are in flight at once.
C18_OneInvocationPerKey ==
  \A a, b \in inflight : a.key = b.key => a = b

\* ---- C14 --------------------------------------------------------------------
\* q is what is left of sequence r after entries were shifted off its front
IsSuffix(q, r) ==
  \E n \in 0..Len(r) : q = SubSeq(r, n + 1, Len(r))

\* C14: when an invocation fails for a job not yet retried and retry is on,
\* the job promise and the cycle promise stay pending, the job that was in
\* the registry under the key stays there with the same promise and
\* retried = TRUE, and the entry (key, args) is pushed at the back of the
\* pending queue.
C14_RetryInvisible ==
  [][\A inv \in inflight :
       (IsRejectionOf(inv) /\ ~IsTerminal(inv)) =>
          /\ jobPromises'[inv.job.promise].st = "pending"
          /\ runPromises'[inv.cycle].st = "pending"
          /\ inv.key \in DOMAIN processing
          /\ processing[inv.key] = inv.job
          /\ inv.key \in DOMAIN processing'
          /\ processing'[inv.key] = [inv.job EXCEPT !.retried = TRUE]
          /\ IsSuffix(queue', Append(queue, <<inv.key, inv.args>>))]_vars

\* ---- C15 --------------------------------------------------------------------
\* the invocations the step starts
Started == inflight' \ inflight

\* invocation x runs the worker for queue entry e
IsStartOf(x, e) == x.key = e[1] /\ x.args = e[2]

\* C15: when the entry at position j of the pending queue is started, every
\* entry in front of it has been started, and not after it; add starts the
\* new job itself only when no entry is waiting; a requeued entry is started
\* only when every entry that waited before it has been started.
C15_FifoAdmission ==
  [][/\ \A j \in 1..Len(queue) : \A y \in Started :
          IsStartOf(y, queue[j]) =>
             \A i \in 1..(j - 1) :
                \E x \in Started : IsStartOf(x, queue[i]) /\ x.id <= y.id
     /\ (lastOp'.op = "add" /\ Started # {}) => queue = <<>>
     /\ \A inv \in inflight :
          (IsRejectionOf(inv) /\ ~IsTerminal(inv) /\ queue' = <<>>) =>
             \A i \in 1..Len(queue) :
                \E x \in Started : IsStartOf(x, queue[i])]_vars

\* ---- C17 --------------------------------------------------------------------
\* every run promise but that of the active cycle has settled
EndedCyclesSettled ==
  \A c \in RunIds : c # runPromise => runPromises[c].st # "pending"

\* C17 as stated: after every operation the registry is empty exactly when
\* no cycle is active, and the promise of a cycle that has ended has settled.
C17_RegistryEmptyIffNoCycle ==
  /\ (DOMAIN processing = {}) <=> (runPromise = Null)
  /\ EndedCyclesSettled

\* C17, amended: after every operation, an active cycle has a non-empty
\* registry (an empty registry means no cycle is active), and the promise of
\* a cycle that has ended has settled.
C17_ActiveCycleHasJobs ==
  /\ runPromise # Null => DOMAIN processing # {}
  /\ EndedCyclesSettled

\* The last job of a cycle has just succeeded: the registry is empty, no
\* cycle is active and the cycle's promise is fulfilled.
C17_Witness ==
  /\ lastOp.op = "resolved"
  /\ DOMAIN processing = {}
  /\ runPromise = Null
  /\ runPromises[Len(runPromises)].st = "fulfilled"

\* ---- C19 --------------------------------------------------------------------
\* the install jobs that are in the registry, waiting in the pending queue or
\* running
OutstandingInstalls ==
  (DOMAIN processing) \cup {queue[i][1] : i \in 1..Len(queue)}
                      \cup {inv.key : inv \in inflight}

\* C19: a module is in modulesInstalling exactly while an install job that
\* contains it is outstanding.
C19_ModulesInstallingTracksJobs ==
  modulesInstalling = UNION {installs.jobModules[k] : k \in OutstandingInstalls}

\* ---- C20 --------------------------------------------------------------------
\* C20: when the promise _addToInstallQueue(modules) returned is fulfilled,
\* every module of modules was in an install call that succeeded.
C20_FulfilledMeansInstalled ==
  \A i \in 1..Len(installs.requests) :
     runPromises[installs.requests[i].ret].st = "fulfilled" =>
        installs.requests[i].modules \subseteq installs.installed
====
